---------------------------- MODULE Spec2Model ----------------------------
(***************************************************************************)
(* A model of the EBS speech-to-text batch pipeline: main.py's batch loop  *)
(* and process_one, the PostgreSQL persistence layer of pg_db.py, and the  *)
(* pure helpers of utils/path_utils.py and stt_engine.py.                  *)
(*                                                                         *)
(* Text values (paths, content ids, timecodes, segment text) are modelled  *)
(* as sequences of one-character strings, so that formatting and parsing   *)
(* are computed the way the Python code computes them.                     *)
(***************************************************************************)
EXTENDS Integers, Sequences, FiniteSets, TLC

(***************************************************************************)
(* Bounds of the model.                                                    *)
(***************************************************************************)
MaxRows  == 2   \* rows the catalog resolver returns for one run
MaxRuns  == 2   \* batch runs executed one after another against one store
MaxItems == 3   \* rows resolved by all the runs together
MaxSegs  == 2   \* segments the recognition engine emits for one item
MaxTick  == 1   \* the database clock advances by 1..MaxTick per transaction
MaxCalls == 3   \* calls of the persistence API in the API-level specification

(***************************************************************************)
(* Program constants.  Speech ratios are in percent.                       *)
(***************************************************************************)
VAD_SKIP_THRESHOLD   == 2    \* main.py:19  (0.02)
VAD_FILTER_THRESHOLD == 10   \* main.py:20  (0.10)
ZFILL_WIDTH          == 8    \* path_utils.py:8, stt_engine.py:37

\* main.py:21-25: the enhancement filter chain, a non-empty string
VOICE_ENHANCE_AF == <<"h","i","g","h","p","a","s","s">>

\* pg_db.py:14
NAS_PREFIX == <<"/","m","n","t","/","n","a","s","_","s","t","t","/">>

\* config.BASE_STT_WAV / config.BASE_STT_JSON (main.py:48-49): directories
\* below the NAS mount
BASE_STT_WAV  == <<"/","m","n","t","/","n","a","s","_","s","t","t","/","w">>
BASE_STT_JSON == <<"/","m","n","t","/","n","a","s","_","s","t","t","/","j">>

EXT_WAV  == <<".","w","a","v">>
EXT_JSON == <<".","j","s","o","n">>

(***************************************************************************)
(* Text helpers: Python's str(int), str.zfill, str.strip, str.startswith,  *)
(* str.lstrip, str.split and int(str).                                     *)
(***************************************************************************)
Digit == <<"0","1","2","3","4","5","6","7","8","9">>

DigitChars == {Digit[i] : i \in 1..10}

DigitVal(c) == (CHOOSE i \in 1..10 : Digit[i] = c) - 1

RECURSIVE Str(_)
Str(n) == IF n < 10 THEN <<Digit[n + 1]>>
          ELSE Str(n \div 10) \o <<Digit[(n % 10) + 1]>>

RECURSIVE ZFill(_, _)
ZFill(s, w) == IF Len(s) >= w THEN s ELSE ZFill(<<"0">> \o s, w)

StartsWith(s, p) == Len(s) >= Len(p) /\ SubSeq(s, 1, Len(p)) = p

RECURSIVE LStrip(_, _)
LStrip(s, c) == IF s # <<>> /\ Head(s) = c THEN LStrip(Tail(s), c) ELSE s

RECURSIVE RStrip(_, _)
RStrip(s, c) == IF s # <<>> /\ s[Len(s)] = c
                THEN RStrip(SubSeq(s, 1, Len(s) - 1), c) ELSE s

\* str.strip(): whitespace is the blank in this model
Strip(s) == RStrip(LStrip(s, " "), " ")

\* the index of the first occurrence of c in s, 0 when there is none
RECURSIVE IndexOf(_, _, _)
IndexOf(s, c, i) == IF i > Len(s) THEN 0
                    ELSE IF s[i] = c THEN i ELSE IndexOf(s, c, i + 1)

\* str.split(c): the list of the pieces between the occurrences of c
RECURSIVE Split(_, _)
Split(s, c) == LET i == IndexOf(s, c, 1) IN
               IF i = 0 THEN <<s>>
               ELSE <<SubSeq(s, 1, i - 1)>> \o Split(SubSeq(s, i + 1, Len(s)), c)

\* int(text): the value of a decimal numeral (blanks around it allowed),
\* -1 standing for the ValueError of any other text
RECURSIVE DigitsVal(_)
DigitsVal(s) == IF s = <<>> THEN 0
                ELSE DigitsVal(SubSeq(s, 1, Len(s) - 1)) * 10 + DigitVal(s[Len(s)])

ParseInt(s) == LET t == Strip(s) IN
               IF t # <<>> /\ \A i \in 1..Len(t) : t[i] \in DigitChars
               THEN DigitsVal(t) ELSE -1

(***************************************************************************)
(* utils/path_utils.py                                                     *)
(***************************************************************************)
\* mutant: the content id is filled to six digits only
shard_filepath_SixDigits(base_dir, content_id, ext) ==
    LET cid    == ZFill(content_id, 6)
        level1 == SubSeq(cid, 1, 2)
        level2 == SubSeq(cid, 3, 4)
    IN  base_dir \o <<"/">> \o level1 \o <<"/">> \o level2 \o <<"/">> \o cid \o ext

shard_filepath(base_dir, content_id, ext) ==
    LET cid    == ZFill(content_id, ZFILL_WIDTH)
        level1 == SubSeq(cid, 1, 2)
        level2 == SubSeq(cid, 3, 4)
    IN  base_dir \o <<"/">> \o level1 \o <<"/">> \o level2 \o <<"/">> \o cid \o ext

(***************************************************************************)
(* pg_db.py: path and timecode normalisation                               *)
(***************************************************************************)
_strip_prefix(path) ==
    IF StartsWith(path, NAS_PREFIX)
    THEN LStrip(SubSeq(path, Len(NAS_PREFIX) + 1, Len(path)), "/")
    ELSE path

\* mutant: the hours are left out of the sum
_hhmmss_to_ms_NoHours(hhmmss) ==
    LET s == Strip(hhmmss) IN
    IF s = <<>> THEN 0
    ELSE LET hms   == Split(s, ".")[1]
             parts == Split(hms, ":")
             n     == Len(parts)
             m     == IF n >= 2 THEN ParseInt(parts[n - 1]) ELSE -1
             sec   == IF n >= 2 THEN ParseInt(parts[n]) ELSE -1
         IN  IF m < 0 \/ sec < 0 THEN -1
             ELSE (m * 60 + sec) * 1000

\* the result in milliseconds, -1 standing for the ValueError that int() raises
_hhmmss_to_ms(hhmmss) ==
    LET s == Strip(hhmmss) IN
    IF s = <<>> THEN 0
    ELSE LET hms   == Split(s, ".")[1]
             parts == Split(hms, ":")
             h     == IF Len(parts) = 2 THEN 0 ELSE ParseInt(parts[1])
             m     == IF Len(parts) = 2 THEN ParseInt(parts[1])
                      ELSE IF Len(parts) >= 2 THEN ParseInt(parts[2]) ELSE -1
             sec   == IF Len(parts) = 2 THEN ParseInt(parts[2])
                      ELSE IF Len(parts) >= 3 THEN ParseInt(parts[3]) ELSE -1
         IN  IF h < 0 \/ m < 0 \/ sec < 0 THEN -1
             ELSE (h * 3600 + m * 60 + sec) * 1000

(***************************************************************************)
(* stt_engine.py: str(timedelta(seconds=int(t))).zfill(8)                  *)
(***************************************************************************)
\* str(timedelta(seconds = secs)): "H:MM:SS", preceded by "D day, " or
\* "D days, " from 24 hours on
TimedeltaStr(secs) ==
    LET days == secs \div 86400
        rest == secs % 86400
        hh   == Str(rest \div 3600)
        mm   == ZFill(Str((rest % 3600) \div 60), 2)
        ss   == ZFill(Str(rest % 60), 2)
        hms  == hh \o <<":">> \o mm \o <<":">> \o ss
    IN  IF days = 0 THEN hms
        ELSE Str(days) \o <<" ","d","a","y">>
             \o (IF days = 1 THEN <<>> ELSE <<"s">>) \o <<","," ">> \o hms

\* engine times are in milliseconds; int(segment.start) truncates to seconds
Timecode(ms) == ZFill(TimedeltaStr(ms \div 1000), ZFILL_WIDTH)


(***************************************************************************)
(* State.                                                                  *)
(***************************************************************************)
VARIABLES
    \* the index store (PostgreSQL)
    index,        \* rows of public.stt_index
    segment,      \* rows of public.stt_segment
    now,          \* the database clock: NOW() of the latest index transaction
    txCount,      \* write transactions this process has opened so far
    \* the file system
    jsonFiles,    \* paths of the transcript JSON files that exist
    \* the batch runner (main)
    run,          \* number of the current batch run
    mainPc,       \* position of main()
    exitCode,     \* exit code of the run that ended last, -1 before
    args,         \* the parsed command line of the run
    rows,         \* the rows the catalog resolver returned
    idx,          \* 1-based position of the batch loop in rows
    loads,        \* loads of the recognition model in this run
    fetched,      \* rows resolved by all the runs so far
    \* process_one
    pc,           \* position of process_one in the current item
    loc,          \* its local variables
    \* observation of the current run
    events,       \* per item: the external calls made for it, in order
    outcome,      \* per item: how process_one ended
    inp,          \* per item: what the environment answered
    start0,       \* the store and the disk as they were when the run began
    \* observation of the persistence API
    api,          \* the latest API call, with the store before it
    latest,       \* content_id -> arguments of the latest upsert_record
    calls,        \* API calls made so far
    \* two batch processes working on one item at the same time
    writers,      \* per process: its position, its options and its result
    \* the pure helpers applied to arguments
    fn,           \* the latest application: arguments and results
    \* history
    doneBefore,   \* content ids of the items that ended Done in an earlier run
    written       \* content_id -> largest segment count a call has stored

storeVars == <<index, segment, now, txCount>>
mainVars  == <<run, mainPc, exitCode, args, rows, idx, loads, fetched>>
runVars   == <<run, args, rows, idx, loads, fetched>>
itemVars  == <<pc, loc>>
obsVars   == <<events, outcome, inp, start0>>
apiVars   == <<api, latest, calls>>
auxVars   == <<writers, fn>>
histVars  == <<doneBefore, written>>
vars == <<index, segment, now, txCount, jsonFiles, run, mainPc, exitCode,
          args, rows, idx, loads, fetched, pc, loc, events, outcome, inp, start0,
          api, latest, calls, writers, fn, doneBefore, written>>

(***************************************************************************)
(* pg_db.py: the schema and the two upsert statements.                     *)
(* A table is the set of its rows; the primary key is kept by the ON       *)
(* CONFLICT clauses, the foreign key by the check in ExecuteBatch.         *)
(***************************************************************************)
\* mutant: the BEFORE UPDATE trigger is missing, updated_at keeps its value
set_updated_at_NoTrigger(new, t) == new

\* trigger trg_set_updated_at: BEFORE UPDATE ... NEW.updated_at = NOW()
set_updated_at(new, t) == [new EXCEPT !.updated_at = t]

\* INSERT ... ON CONFLICT (content_id) DO UPDATE SET <every data column>
UPSERT_STT_INDEX(tbl, v, t) ==
    LET hit == {r \in tbl : r.content_id = v.content_id} IN
    IF hit = {}
    THEN tbl \cup {[content_id |-> v.content_id, title |-> v.title,
                    subprognm |-> v.subprognm, archive_id |-> v.archive_id,
                    sys_clip_id |-> v.sys_clip_id,
                    brodymd |-> v.brodymd, proxy_path |-> v.proxy_path,
                    wav_path |-> v.wav_path, json_path |-> v.json_path,
                    created_at |-> t, updated_at |-> t]}
    ELSE (tbl \ hit) \cup
         {set_updated_at([old EXCEPT !.title = v.title,
                                     !.subprognm = v.subprognm,
                                     !.archive_id = v.archive_id,
                                     !.sys_clip_id = v.sys_clip_id,
                                     !.brodymd = v.brodymd,
                                     !.proxy_path = v.proxy_path,
                                     !.wav_path = v.wav_path,
                                     !.json_path = v.json_path], t)
            : old \in hit}

\* brodymd.strftime("%Y%m%d") of a date value; a text value is kept
Brodymd(b) == IF b.isdate
              THEN ZFill(Str(b.y), 4) \o ZFill(Str(b.m), 2) \o ZFill(Str(b.d), 2)
              ELSE b.text

\* upsert_record: the parameter tuple handed to UPSERT_STT_INDEX
RecordValues(results, wav_path, json_path) ==
    [content_id |-> Strip(Str(results.CONTENT_ID)),
     title      |-> results.TITLE,
     subprognm  |-> results.SUBPROGNM,
     archive_id |-> results.ARCHIVE_ID,
     sys_clip_id |-> results.SYS_CLIP_ID,
     brodymd    |-> Brodymd(results.BRODYMD),
     proxy_path |-> results.PROXY_PATH,
     wav_path   |-> _strip_prefix(wav_path),
     json_path  |-> _strip_prefix(json_path)]

\* mutant: a plain INSERT into a table without the primary key
UPSERT_SEGMENT_InsertOnly(tbl, row) == tbl \cup {row}

\* INSERT ... ON CONFLICT (content_id, seg_no) DO UPDATE SET start_ms, end_ms, text
UPSERT_SEGMENT(tbl, row) ==
    {r \in tbl : ~(r.content_id = row.content_id /\ r.seg_no = row.seg_no)}
    \cup {row}

\* a row building that numbers the segments from 1
SegmentRows_OneBased(content_id, stt_segments) ==
    [i \in 1..Len(stt_segments) |->
        [content_id |-> content_id,
         seg_no     |-> i,
         start_ms   |-> _hhmmss_to_ms(stt_segments[i].start),
         end_ms     |-> _hhmmss_to_ms(stt_segments[i].end),
         text       |-> Strip(stt_segments[i].text)]]

\* upsert_segments, lines 201-206: the rows built from the segment list
SegmentRows(content_id, stt_segments) ==
    [i \in 1..Len(stt_segments) |->
        [content_id |-> content_id,
         seg_no     |-> i - 1,
         start_ms   |-> _hhmmss_to_ms(stt_segments[i].start),
         end_ms     |-> _hhmmss_to_ms(stt_segments[i].end),
         text       |-> Strip(stt_segments[i].text)]]

\* building the rows raises when a timecode does not parse
RowsRaise(content_id, stt_segments) ==
    \E i \in 1..Len(stt_segments) :
        \/ _hhmmss_to_ms(stt_segments[i].start) < 0
        \/ _hhmmss_to_ms(stt_segments[i].end) < 0

\* execute_batch: the statement applied to every row, in order
RECURSIVE ExecuteBatch(_, _)
ExecuteBatch(tbl, rws) ==
    IF rws = <<>> THEN tbl
    ELSE ExecuteBatch(UPSERT_SEGMENT(tbl, Head(rws)), Tail(rws))

\* FOREIGN KEY (content_id) REFERENCES stt_index(content_id)
ForeignKeyOk(idxTbl, content_id) == \E r \in idxTbl : r.content_id = content_id

\* has_record: SELECT 1 FROM stt_index WHERE content_id = %s LIMIT 1
has_record(idxTbl, content_id) == \E r \in idxTbl : r.content_id = content_id

\* upsert_record as one transaction on the store:
\* dbOk = FALSE is a failed connection or statement, which raises and
\* commits nothing
UpsertRecordTx(results, wav_path, json_path, dbOk, tick) ==
    /\ txCount' = txCount + 1
    /\ IF dbOk
       THEN /\ now' = now + tick
            /\ index' = UPSERT_STT_INDEX(index,
                            RecordValues(results, wav_path, json_path), now + tick)
       ELSE UNCHANGED <<now, index>>
    /\ UNCHANGED segment

\* whether upsert_segments raises: a timecode that does not parse, a failed
\* connection, or the foreign key
UpsertSegmentsRaises(content_id, stt_segments, dbOk) ==
    \/ RowsRaise(content_id, stt_segments)
    \/ /\ stt_segments # <<>>
       /\ (~dbOk \/ ~ForeignKeyOk(index, content_id))

\* mutant: an empty list erases the stored segments of the content_id
UpsertSegmentsTx_EraseOnEmpty(content_id, stt_segments, dbOk) ==
    /\ UNCHANGED index
    /\ IF RowsRaise(content_id, stt_segments)
       THEN UNCHANGED <<segment, now, txCount>>
       ELSE /\ txCount' = txCount + 1
            /\ now' = now
            /\ IF dbOk /\ (stt_segments = <<>> \/ ForeignKeyOk(index, content_id))
               THEN segment' = ExecuteBatch(
                                    {r \in segment : stt_segments # <<>>
                                                     \/ r.content_id # content_id},
                                    SegmentRows(content_id, stt_segments))
               ELSE UNCHANGED segment

\* mutant: both writes share one transaction, a failed segment write takes
\* the index record of the content_id back
UpsertSegmentsTx_OneTransaction(content_id, stt_segments, dbOk) ==
    IF RowsRaise(content_id, stt_segments) \/ stt_segments = <<>>
    THEN UNCHANGED <<index, segment, now, txCount>>
    ELSE /\ txCount' = txCount + 1
         /\ now' = now
         /\ IF dbOk /\ ForeignKeyOk(index, content_id)
            THEN /\ segment' = ExecuteBatch(segment,
                                    SegmentRows(content_id, stt_segments))
                 /\ UNCHANGED index
            ELSE /\ index' = {r \in index : r.content_id # content_id}
                 /\ UNCHANGED segment

\* upsert_segments on the store: an empty list returns before connecting
UpsertSegmentsTx(content_id, stt_segments, dbOk) ==
    /\ UNCHANGED index
    /\ IF RowsRaise(content_id, stt_segments) \/ stt_segments = <<>>
       THEN UNCHANGED <<segment, now, txCount>>
       ELSE /\ txCount' = txCount + 1
            /\ now' = now
            /\ IF dbOk /\ ForeignKeyOk(index, content_id)
               THEN segment' = ExecuteBatch(segment,
                                   SegmentRows(content_id, stt_segments))
               ELSE UNCHANGED segment


(***************************************************************************)
(* Initial state: an empty store, an empty disk, no run started.           *)
(***************************************************************************)
NoLoc == [ratio |-> 0, wav |-> "none", stt_results |-> <<>>]

NoArgs == [range_ok |-> TRUE, skip_existing |-> FALSE]

\* the two processes of the concurrent specification, not yet started
Writers == {1, 2}

NoWriter == [pc |-> "check", skip_existing |-> FALSE, stt_results |-> <<>>]

NoFn == [op |-> "none"]

Init ==
    /\ index = {} /\ segment = {} /\ now = 0 /\ txCount = 0
    /\ jsonFiles = {}
    /\ run = 0 /\ mainPc = "idle" /\ exitCode = -1 /\ args = NoArgs
    /\ rows = <<>> /\ idx = 0 /\ loads = 0 /\ fetched = 0
    /\ pc = "none" /\ loc = NoLoc
    /\ events = <<>> /\ outcome = <<>> /\ inp = <<>>
    /\ start0 = [index |-> {}, segment |-> {}, jsonFiles |-> {}]
    /\ api = [op |-> "none", content_id |-> <<>>, segs |-> <<>>,
              raised |-> FALSE, preIndex |-> {}, preSegment |-> {}, preTx |-> 0]
    /\ latest = <<>>
    /\ calls = 0
    /\ writers = [w \in Writers |-> NoWriter]
    /\ fn = NoFn
    /\ doneBefore = {}
    /\ written = <<>>

(***************************************************************************)
(* The persistence API called directly, in any order, with any arguments   *)
(* of a small pool: the specification the API-level claims are checked     *)
(* under.                                                                  *)
(***************************************************************************)
SeqsUpTo(S, n) == UNION {[1..k -> S] : k \in 0..n}

Ticks == 1..MaxTick

ApiIds == {7, 12}

ApiRecords ==
    {[CONTENT_ID |-> c, TITLE |-> <<"a">>, SUBPROGNM |-> <<"s">>,
      ARCHIVE_ID |-> <<"r">>, SYS_CLIP_ID |-> <<"k">>, PROXY_PATH |-> <<"p">>,
      BRODYMD |-> [isdate |-> TRUE, y |-> 2017, m |-> 3, d |-> 5, text |-> <<>>]]
        : c \in ApiIds}
    \cup
    {[CONTENT_ID |-> c, TITLE |-> <<"b">>, SUBPROGNM |-> <<"u">>,
      ARCHIVE_ID |-> <<"v">>, SYS_CLIP_ID |-> <<"w">>, PROXY_PATH |-> <<"q">>,
      BRODYMD |-> [isdate |-> FALSE, y |-> 0, m |-> 0, d |-> 0,
                   text |-> <<"2","0","1","8","1","2","3","1">>]]
        : c \in ApiIds}

\* the sharded paths below the NAS mount, or paths elsewhere
ApiPaths(c) ==
    {[wav  |-> shard_filepath(BASE_STT_WAV, Str(c), EXT_WAV),
      json |-> shard_filepath(BASE_STT_JSON, Str(c), EXT_JSON)],
     [wav  |-> <<"/","t","/">> \o Str(c) \o EXT_WAV,
      json |-> <<"/","t","/">> \o Str(c) \o EXT_JSON]}

\* segments as stt_whisper hands them on; the last one starts after 24 hours
ApiSegPool ==
    {[start |-> Timecode(0),        end |-> Timecode(1500),     text |-> <<" ","a">>],
     [start |-> Timecode(1500),     end |-> Timecode(61000),    text |-> <<"b"," ">>],
     [start |-> Timecode(86400000), end |-> Timecode(86401000), text |-> <<"c">>]}

ApiSegLists == SeqsUpTo(ApiSegPool, MaxSegs)

ApiCall(op, content_id, segs, raised) ==
    [op |-> op, content_id |-> content_id, segs |-> segs, raised |-> raised,
     preIndex |-> index, preSegment |-> segment, preTx |-> txCount]

DbUpsertRecord ==
    /\ calls < MaxCalls
    /\ \E results \in ApiRecords, dbOk \in BOOLEAN, tick \in Ticks :
         \E p \in ApiPaths(results.CONTENT_ID) :
            LET v == RecordValues(results, p.wav, p.json) IN
            /\ UpsertRecordTx(results, p.wav, p.json, dbOk, tick)
            /\ api' = ApiCall("upsert_record", v.content_id, <<>>, ~dbOk)
            /\ latest' = IF dbOk
                         THEN [c \in DOMAIN latest \cup {v.content_id} |->
                                 IF c = v.content_id
                                 THEN [results |-> results, wav_path |-> p.wav,
                                       json_path |-> p.json]
                                 ELSE latest[c]]
                         ELSE latest
    /\ calls' = calls + 1
    /\ UNCHANGED <<jsonFiles, mainVars, itemVars, obsVars, auxVars, histVars>>

DbUpsertSegments ==
    /\ calls < MaxCalls
    /\ \E c \in ApiIds, segs \in ApiSegLists, dbOk \in BOOLEAN :
         /\ UpsertSegmentsTx(Str(c), segs, dbOk)
         /\ api' = ApiCall("upsert_segments", Str(c), segs,
                           UpsertSegmentsRaises(Str(c), segs, dbOk))
         /\ written' = IF UpsertSegmentsRaises(Str(c), segs, dbOk) \/ segs = <<>>
                       THEN written
                       ELSE [k \in DOMAIN written \cup {Str(c)} |->
                               IF k = Str(c)
                               THEN IF k \in DOMAIN written /\ written[k] > Len(segs)
                                    THEN written[k] ELSE Len(segs)
                               ELSE written[k]]
    /\ calls' = calls + 1
    /\ UNCHANGED <<latest, jsonFiles, mainVars, itemVars, obsVars, auxVars,
                   doneBefore>>

DbHasRecord ==
    /\ calls < MaxCalls
    /\ \E c \in ApiIds :
         api' = [ApiCall("has_record", Str(c), <<>>, FALSE)
                   EXCEPT !.segs = IF has_record(index, Str(c))
                                   THEN <<"yes">> ELSE <<"no">>]
    /\ calls' = calls + 1
    /\ UNCHANGED <<storeVars, latest, jsonFiles, mainVars, itemVars, obsVars, auxVars, histVars>>

NextDb == DbUpsertRecord \/ DbUpsertSegments \/ DbHasRecord

SpecDb == Init /\ [][NextDb]_vars


(***************************************************************************)
(* The pipeline's external collaborators, as far as process_one sees them. *)
(***************************************************************************)
\* a convert_to_wav that reports a failed tool run as a finished file
convert_to_wav_NeverRaises(input_path, extra_af, toolOk) ==
    IF input_path = <<>> THEN "raise"
    ELSE IF extra_af # <<>> THEN "enhanced" ELSE "plain"

\* utils/ffmpeg_utils.py: the file the transcoder leaves at output_path, or
\* "raise" (CalledProcessError, or ValueError for an empty input path)
convert_to_wav(input_path, extra_af, toolOk) ==
    IF input_path = <<>> \/ ~toolOk THEN "raise"
    ELSE IF extra_af # <<>> THEN "enhanced" ELSE "plain"

\* main.py _convert: with a filter chain the extended signature is called;
\* convert_to_wav accepts extra_af, so the TypeError fallback is never taken
_convert(in_path, extra_af, toolOk) ==
    IF extra_af # <<>>
    THEN convert_to_wav(in_path, extra_af, toolOk)
    ELSE convert_to_wav(in_path, <<>>, toolOk)

\* what the recognition engine emits for a normalized file: a prefix of a
\* stream that depends on the audio; times in milliseconds
EngineStream(wav) ==
    IF wav = "enhanced"
    THEN <<[start |-> 0,    end |-> 2500,  text |-> <<" ","c">>],
           [start |-> 2500, end |-> 61000, text |-> <<" ","d">>],
           [start |-> 61000, end |-> 62000, text |-> <<" ","e">>]>>
    ELSE <<[start |-> 0,    end |-> 1500,  text |-> <<" ","a">>],
           [start |-> 1500, end |-> 61000, text |-> <<" ","b">>],
           [start |-> 61000, end |-> 62000, text |-> <<" ","f">>]>>

\* mutant: a failure after some segments keeps the segments emitted so far
stt_whisper_Partial(emitted, failed) ==
    [i \in 1..Len(emitted) |->
        [start |-> Timecode(emitted[i].start),
         end   |-> Timecode(emitted[i].end),
         text  |-> emitted[i].text]]

\* stt_engine.py stt_whisper: the emitted segments with their times as
\* zero-filled timecode text; any failure of the recognition call gives []
stt_whisper(emitted, failed) ==
    IF failed THEN <<>>
    ELSE [i \in 1..Len(emitted) |->
            [start |-> Timecode(emitted[i].start),
             end   |-> Timecode(emitted[i].end),
             text  |-> emitted[i].text]]

\* stt_engine.py save_to_json: the files on disk afterwards; a failure is
\* logged and swallowed (None is returned), nothing is raised
save_to_json(files, output_file_json, writeOk) ==
    IF writeOk THEN files \cup {output_file_json} ELSE files

\* mutant: the skip tier is gone, a silent item is filtered and transcribed
Tier_NoSkip(ratio) ==
    IF ratio < VAD_FILTER_THRESHOLD THEN "filter" ELSE "accept"

\* mutant: the filter tier is gone, a low-speech item is transcribed as it is
Tier_NoFilter(ratio) ==
    IF ratio < VAD_SKIP_THRESHOLD THEN "skip" ELSE "accept"

\* mutant: a ratio equal to T_filter is still filtered
Tier_FilterInclusive(ratio) ==
    IF ratio < VAD_SKIP_THRESHOLD THEN "skip"
    ELSE IF ratio <= VAD_FILTER_THRESHOLD THEN "filter"
    ELSE "accept"

\* main.py:78-83: the tier of a speech ratio (in percent)
Tier(ratio) ==
    IF ratio < VAD_SKIP_THRESHOLD THEN "skip"
    ELSE IF ratio < VAD_FILTER_THRESHOLD THEN "filter"
    ELSE "accept"

(***************************************************************************)
(* The catalog: content ids 1..MaxRows, each with fixed metadata.          *)
(***************************************************************************)
CatalogIds == 1..MaxRows

CatalogRow(c) ==
    [CONTENT_ID |-> c, TITLE |-> <<"t">> \o Str(c),
     SUBPROGNM |-> <<"s">> \o Str(c), ARCHIVE_ID |-> <<"r">> \o Str(c),
     SYS_CLIP_ID |-> <<"k">> \o Str(c), PROXY_PATH |-> <<"p">> \o Str(c),
     BRODYMD |-> [isdate |-> TRUE, y |-> 2017, m |-> 3, d |-> c, text |-> <<>>]]

\* the resolver's answers: every sequence of distinct catalog rows
Resolved ==
    {r \in SeqsUpTo(CatalogIds, MaxRows) :
        \A i, j \in 1..Len(r) : i # j => r[i] # r[j]}

\* speech ratios in percent: one below T_skip, T_skip itself (the lowest of
\* the filter tier) and T_filter itself (the lowest of the accept tier)
Ratios == {1, 2, 10}

VadRaised == -1   \* speech_ratio_wav raised

(***************************************************************************)
(* process_one, one step per external call.                                *)
(***************************************************************************)
Cid     == Str(rows[idx])
OutWav  == shard_filepath(BASE_STT_WAV, Cid, EXT_WAV)
OutJson == shard_filepath(BASE_STT_JSON, Cid, EXT_JSON)
InputFile(srcExists) == IF srcExists THEN <<"/","d","/">> \o CatalogRow(rows[idx]).PROXY_PATH
                        ELSE <<>>

NoInp == [dirs |-> "-", json_exists |-> "-", has_record |-> "-", src |-> "-",
          conv1 |-> "-", ratio |-> -2, conv2 |-> "-", emitted |-> -1,
          stt_failed |-> "-", json |-> "-", db_rec |-> "-", seg_raise |-> "-"]

Yn(b) == IF b THEN "yes" ELSE "no"

Event(e) == events' = [events EXCEPT ![idx] = Append(@, e)]

\* process_one returns: the item is over and the loop goes on
Finish(o) ==
    /\ outcome' = [outcome EXCEPT ![idx] = o]
    /\ pc' = "none"
    /\ loc' = NoLoc
    /\ UNCHANGED <<mainPc, exitCode>>

Goto(p) == pc' = p /\ UNCHANGED <<outcome, mainPc, exitCode>>

\* mutant: the loop body has no handler, the exception ends the process
RaiseToMain_Uncaught ==
    /\ outcome' = [outcome EXCEPT ![idx] = "Failed_exc"]
    /\ pc' = "none"
    /\ loc' = NoLoc
    /\ mainPc' = "exited"
    /\ exitCode' = 1

\* main.py:162-167: an exception that leaves process_one is caught by the
\* loop body, logged, and the loop goes on with the next row
RaiseToMain == Finish("Failed_exc")

\* mutant: a failed measurement counts as all speech
MeasuredRatio_Full(v) == IF v = VadRaised THEN 100 ELSE v

\* main.py:71-75: the measured ratio, 0.0 when the measurement raised
MeasuredRatio(v) == IF v = VadRaised THEN 0 ELSE v

\* mutant: the conjunction of the two signals
AlreadyProcessed_Both(jsonExists, hasRecord) == jsonExists /\ hasRecord

\* mutant: only the index record counts
AlreadyProcessed_RecordOnly(jsonExists, hasRecord) == hasRecord

\* main.py:55: Path(out_json).exists() or has_record(cid)
AlreadyProcessed(jsonExists, hasRecord) == jsonExists \/ hasRecord

\* main.py:51-52 ensure_parent_dir: mkdir may raise, outside any try
P_Dirs ==
    /\ mainPc = "loop" /\ pc = "dirs"
    /\ \E ok \in BOOLEAN :
         /\ inp' = [inp EXCEPT ![idx].dirs = Yn(ok)]
         /\ IF ok THEN Goto("check") /\ UNCHANGED loc ELSE RaiseToMain
    /\ UNCHANGED <<storeVars, jsonFiles, runVars, events, start0, apiVars, auxVars, histVars>>

\* main.py:54-57: skip_existing and (json exists or has_record(cid)); "or"
\* reaches has_record only when the file is absent, and has_record may
\* raise (no try around it)
P_Check ==
    /\ mainPc = "loop" /\ pc = "check"
    /\ IF ~args.skip_existing
       THEN Goto("src") /\ UNCHANGED <<loc, inp, events>>
       ELSE IF OutJson \in jsonFiles
       THEN /\ inp' = [inp EXCEPT ![idx].json_exists = "yes"]
            /\ Event("json_exists")
            /\ IF AlreadyProcessed(TRUE, FALSE) THEN Finish("SkippedExisting")
               ELSE Goto("src") /\ UNCHANGED loc
       ELSE \E dbOk \in BOOLEAN :
            /\ inp' = [inp EXCEPT ![idx].json_exists = "no",
                                  ![idx].has_record =
                                      IF dbOk THEN Yn(has_record(index, Cid))
                                      ELSE "raise"]
            /\ events' = [events EXCEPT ![idx] = @ \o <<"json_exists", "has_record">>]
            /\ IF ~dbOk THEN RaiseToMain
               ELSE IF AlreadyProcessed(FALSE, has_record(index, Cid))
               THEN Finish("SkippedExisting")
               ELSE Goto("src") /\ UNCHANGED loc
    /\ UNCHANGED <<storeVars, jsonFiles, runVars, start0, apiVars, auxVars, histVars>>

\* main.py:59-61
P_Src ==
    /\ mainPc = "loop" /\ pc = "src"
    /\ \E exists \in BOOLEAN :
         /\ inp' = [inp EXCEPT ![idx].src = Yn(exists)]
         /\ IF exists THEN Goto("conv1") /\ UNCHANGED loc
            ELSE Finish("MissingSource")
    /\ UNCHANGED <<storeVars, jsonFiles, runVars, events, start0, apiVars, auxVars, histVars>>

\* main.py:63-68
P_Conv1 ==
    /\ mainPc = "loop" /\ pc = "conv1"
    /\ \E toolOk \in BOOLEAN :
         LET out == _convert(InputFile(TRUE), <<>>, toolOk) IN
         /\ inp' = [inp EXCEPT ![idx].conv1 = Yn(toolOk)]
         /\ Event("convert_plain")
         /\ IF out = "raise" THEN Finish("Failed_convert")
            ELSE Goto("vad") /\ loc' = [loc EXCEPT !.wav = out]
    /\ UNCHANGED <<storeVars, jsonFiles, runVars, start0, apiVars, auxVars, histVars>>

\* main.py:70-83: the measurement (0.0 when it raises) and the tier
P_Vad ==
    /\ mainPc = "loop" /\ pc = "vad"
    /\ \E v \in Ratios \cup {VadRaised} :
         LET ratio == MeasuredRatio(v) IN
         /\ inp' = [inp EXCEPT ![idx].ratio = v]
         /\ Event("vad")
         /\ IF Tier(ratio) = "skip" THEN Finish("SkippedSilent")
            ELSE /\ Goto(IF Tier(ratio) = "filter" THEN "conv2" ELSE "stt")
                 /\ loc' = [loc EXCEPT !.ratio = ratio]
    /\ UNCHANGED <<storeVars, jsonFiles, runVars, start0, apiVars, auxVars, histVars>>

\* main.py:83-89
P_Conv2 ==
    /\ mainPc = "loop" /\ pc = "conv2"
    /\ \E toolOk \in BOOLEAN :
         LET out == _convert(InputFile(TRUE), VOICE_ENHANCE_AF, toolOk) IN
         /\ inp' = [inp EXCEPT ![idx].conv2 = Yn(toolOk)]
         /\ Event(IF VOICE_ENHANCE_AF # <<>> THEN "convert_enhanced"
                  ELSE "convert_plain")
         /\ IF out = "raise" THEN Finish("Failed_reconvert")
            ELSE Goto("stt") /\ loc' = [loc EXCEPT !.wav = out]
    /\ UNCHANGED <<storeVars, jsonFiles, runVars, start0, apiVars, auxVars, histVars>>

\* main.py:91-110
P_Stt ==
    /\ mainPc = "loop" /\ pc = "stt"
    /\ \E n \in 0..MaxSegs, failed \in BOOLEAN :
         LET stt_results == stt_whisper(SubSeq(EngineStream(loc.wav), 1, n), failed) IN
         /\ inp' = [inp EXCEPT ![idx].emitted = n, ![idx].stt_failed = Yn(failed)]
         /\ Event(IF loc.wav = "enhanced" THEN "stt_enhanced" ELSE "stt_plain")
         /\ IF stt_results = <<>> THEN Finish("SkippedNoSpeech")
            ELSE Goto("json") /\ loc' = [loc EXCEPT !.stt_results = stt_results]
    /\ UNCHANGED <<storeVars, jsonFiles, runVars, start0, apiVars, auxVars, histVars>>

\* main.py:112-117: save_to_json never raises, so the handler is never
\* entered and the item goes on to the index writes either way
P_Json ==
    /\ mainPc = "loop" /\ pc = "json"
    /\ \E writeOk \in BOOLEAN :
         /\ inp' = [inp EXCEPT ![idx].json = Yn(writeOk)]
         /\ Event("save_to_json")
         /\ jsonFiles' = save_to_json(jsonFiles, OutJson, writeOk)
         /\ Goto("rec")
    /\ UNCHANGED <<storeVars, loc, runVars, start0, apiVars, auxVars, histVars>>

\* a process_one that goes on to the segment write after a failed
\* index-record write
P_Rec_ContinuesOnFailure ==
    /\ mainPc = "loop" /\ pc = "rec"
    /\ \E dbOk \in BOOLEAN, tick \in Ticks :
         /\ inp' = [inp EXCEPT ![idx].db_rec = Yn(dbOk)]
         /\ Event("upsert_record")
         /\ UpsertRecordTx(CatalogRow(rows[idx]), OutWav, OutJson, dbOk, tick)
         /\ Goto("segs") /\ UNCHANGED loc
    /\ UNCHANGED <<jsonFiles, runVars, start0, apiVars, auxVars, histVars>>

\* main.py:119-120
P_Rec ==
    /\ mainPc = "loop" /\ pc = "rec"
    /\ \E dbOk \in BOOLEAN, tick \in Ticks :
         /\ inp' = [inp EXCEPT ![idx].db_rec = Yn(dbOk)]
         /\ Event("upsert_record")
         /\ UpsertRecordTx(CatalogRow(rows[idx]), OutWav, OutJson, dbOk, tick)
         /\ IF dbOk THEN Goto("segs") /\ UNCHANGED loc
            ELSE Finish("Failed_record")
    /\ UNCHANGED <<jsonFiles, runVars, start0, apiVars, auxVars, histVars>>

\* main.py:121-123
P_Segs ==
    /\ mainPc = "loop" /\ pc = "segs"
    /\ \E dbOk \in BOOLEAN :
         LET raises == UpsertSegmentsRaises(Cid, loc.stt_results, dbOk) IN
         /\ inp' = [inp EXCEPT ![idx].seg_raise = Yn(raises)]
         /\ Event("upsert_segments")
         /\ UpsertSegmentsTx(Cid, loc.stt_results, dbOk)
         /\ Finish(IF raises THEN "Failed_segments" ELSE "Done")
    /\ UNCHANGED <<jsonFiles, runVars, start0, apiVars, auxVars, histVars>>

(***************************************************************************)
(* main: one batch run after another against the same store.               *)
(***************************************************************************)
Exit(code) ==
    /\ mainPc' = "exited"
    /\ exitCode' = code

\* main.py:127-141: a new process; year-start > year-end exits with 2
ParseArgs ==
    /\ mainPc \in {"idle", "exited"}
    /\ run < MaxRuns
    /\ run' = run + 1
    /\ \E range_ok \in BOOLEAN, skip \in BOOLEAN :
         /\ args' = [range_ok |-> range_ok, skip_existing |-> skip]
         /\ IF range_ok THEN mainPc' = "init_db" /\ exitCode' = -1
            ELSE Exit(2)
    /\ rows' = <<>> /\ idx' = 0 /\ loads' = 0
    /\ UNCHANGED fetched
    /\ events' = <<>> /\ outcome' = <<>> /\ inp' = <<>>
    /\ start0' = [index |-> index, segment |-> segment, jsonFiles |-> jsonFiles]
    /\ txCount' = 0
    /\ doneBefore' = doneBefore \cup
                        {Str(rows[i]) : i \in {k \in 1..Len(rows) : outcome[k] = "Done"}}
    /\ UNCHANGED <<index, segment, now, jsonFiles, itemVars, apiVars, auxVars,
                   written>>

\* main.py:144: init_db re-raises a failure, which ends the process with 1
InitDb ==
    /\ mainPc = "init_db"
    /\ \E dbOk \in BOOLEAN :
         IF dbOk THEN mainPc' = "fetch" /\ UNCHANGED exitCode ELSE Exit(1)
    /\ UNCHANGED <<storeVars, jsonFiles, run, args, rows, idx, loads, fetched,
                   itemVars, obsVars, apiVars, auxVars, histVars>>

\* main.py:147-150: a failed connection exits with 1 inside the resolver, a
\* failed query is an empty list, and an empty list exits with 1
Fetch ==
    /\ mainPc = "fetch"
    /\ \E r \in Resolved :
         /\ fetched + Len(r) <= MaxItems
         /\ fetched' = fetched + Len(r)
         /\ rows' = r
         /\ events'  = [i \in 1..Len(r) |-> <<>>]
         /\ outcome' = [i \in 1..Len(r) |-> "pending"]
         /\ inp'     = [i \in 1..Len(r) |-> NoInp]
         /\ IF r = <<>> THEN Exit(1)
            ELSE mainPc' = "load" /\ UNCHANGED exitCode
    /\ UNCHANGED <<storeVars, jsonFiles, run, args, idx, loads, itemVars,
                   start0, apiVars, auxVars, histVars>>

\* main.py:152-154: the model is loaded once, before the loop
LoadModel ==
    /\ mainPc = "load"
    /\ loads' = loads + 1
    /\ \E ok \in BOOLEAN :
         IF ok THEN mainPc' = "loop" /\ UNCHANGED exitCode ELSE Exit(1)
    /\ UNCHANGED <<storeVars, jsonFiles, run, args, rows, idx, fetched,
                   itemVars, obsVars, apiVars, auxVars, histVars>>

\* mutant: an item that ended as failed is started again
LoopNext_RetryFailed ==
    /\ mainPc = "loop" /\ pc = "none"
    /\ IF idx >= 1 /\ outcome[idx] \in {"MissingSource", "Failed_convert",
                      "Failed_reconvert", "Failed_record", "Failed_segments",
                      "Failed_exc"}
       THEN /\ pc' = "dirs"
            /\ outcome' = [outcome EXCEPT ![idx] = "running"]
            /\ UNCHANGED <<idx, mainPc, exitCode>>
       ELSE IF idx < Len(rows)
       THEN /\ idx' = idx + 1
            /\ pc' = "dirs"
            /\ outcome' = [outcome EXCEPT ![idx + 1] = "running"]
            /\ UNCHANGED <<mainPc, exitCode>>
       ELSE /\ mainPc' = "exited" /\ exitCode' = 0
            /\ UNCHANGED <<idx, pc, outcome>>
    /\ UNCHANGED <<storeVars, jsonFiles, run, args, rows, loads, fetched, loc,
                   events, inp, start0, apiVars, auxVars, histVars>>

\* mutant: the model is loaded again for every item
LoopNext_ReloadPerItem ==
    /\ mainPc = "loop" /\ pc = "none"
    /\ IF idx < Len(rows)
       THEN /\ idx' = idx + 1
            /\ pc' = "dirs"
            /\ outcome' = [outcome EXCEPT ![idx + 1] = "running"]
            /\ loads' = loads + 1
            /\ UNCHANGED <<mainPc, exitCode>>
       ELSE /\ mainPc' = "exited" /\ exitCode' = 0
            /\ UNCHANGED <<idx, pc, outcome, loads>>
    /\ UNCHANGED <<storeVars, jsonFiles, run, args, rows, fetched, loc,
                   events, inp, start0, apiVars, auxVars, histVars>>

\* main.py:160-165: the next row is started, or the loop ends and main returns
LoopNext ==
    /\ mainPc = "loop" /\ pc = "none"
    /\ IF idx < Len(rows)
       THEN /\ idx' = idx + 1
            /\ pc' = "dirs"
            /\ outcome' = [outcome EXCEPT ![idx + 1] = "running"]
            /\ UNCHANGED <<mainPc, exitCode>>
       ELSE /\ Exit(0)
            /\ UNCHANGED <<idx, pc, outcome>>
    /\ UNCHANGED <<storeVars, jsonFiles, run, args, rows, loads, fetched, loc,
                   events, inp, start0, apiVars, auxVars, histVars>>

\* main.py:168-170: KeyboardInterrupt is no Exception, so it passes every
\* handler of process_one and of the loop body and ends the run with 130
Interrupt ==
    /\ mainPc = "loop"
    /\ Exit(130)
    /\ pc' = "none"
    /\ loc' = NoLoc
    /\ outcome' = IF pc # "none" THEN [outcome EXCEPT ![idx] = "Interrupted"]
                  ELSE outcome
    /\ UNCHANGED <<storeVars, jsonFiles, run, args, rows, idx, loads, fetched,
                   events, inp, start0, apiVars, auxVars, histVars>>

ProcessOne == \/ P_Dirs \/ P_Check \/ P_Src \/ P_Conv1 \/ P_Vad \/ P_Conv2
              \/ P_Stt \/ P_Json \/ P_Rec \/ P_Segs

Next == \/ ParseArgs \/ InitDb \/ Fetch \/ LoadModel \/ LoopNext
        \/ ProcessOne \/ Interrupt

Spec == Init /\ [][Next]_vars

(***************************************************************************)
(* Claims about the pipeline (checked under Spec).  The store is read      *)
(* through RowsOf; a run's rows have distinct content ids, so the rows of  *)
(* an item's content id are touched by that item alone during the run.     *)
(***************************************************************************)
RowsOf(tbl, content_id) == {r \in tbl : r.content_id = content_id}

Items == 1..Len(rows)

ItemCid(i) == Str(rows[i])

ItemJson(i) == shard_filepath(BASE_STT_JSON, ItemCid(i), EXT_JSON)

\* process_one has returned, or raised into the loop body's handler
Over(i) == outcome[i] \notin {"pending", "running", "Interrupted"}

FailedOutcomes == {"MissingSource", "Failed_convert", "Failed_reconvert",
                   "Failed_record", "Failed_segments", "Failed_exc"}

Has(i, e) == \E k \in 1..Len(events[i]) : events[i][k] = e

IsConversion(e) == e \in {"convert_plain", "convert_enhanced"}

IsCheck(e) == e \in {"json_exists", "has_record"}

IsWork(e) == ~IsCheck(e)

Transcribed(i) == Has(i, "stt_plain") \/ Has(i, "stt_enhanced")

Wrote(i) == Has(i, "save_to_json") \/ Has(i, "upsert_record")
            \/ Has(i, "upsert_segments")

\* the index row, the segment rows and the transcript file of the item are
\* as they were when the run began
StoreUntouched(i) ==
    /\ RowsOf(index, ItemCid(i)) = RowsOf(start0.index, ItemCid(i))
    /\ RowsOf(segment, ItemCid(i)) = RowsOf(start0.segment, ItemCid(i))
    /\ (ItemJson(i) \in jsonFiles) = (ItemJson(i) \in start0.jsonFiles)

\* C1: an item whose measured speech ratio is below T_skip ends as
\* SkippedSilent: no transcription call, no transcript JSON written, neither
\* upsert called, and the store holds for it what it held before.
C1_SilentItemSkipped ==
    \A i \in Items :
        (inp[i].ratio >= 0 /\ inp[i].ratio < VAD_SKIP_THRESHOLD) =>
            /\ outcome[i] = "SkippedSilent"
            /\ ~Transcribed(i)
            /\ ~Wrote(i)
            /\ StoreUntouched(i)

\* C1 witness: an item measured at 1 percent has been skipped as silent
C1_Witness ==
    \E i \in Items : inp[i].ratio = 1 /\ outcome[i] = "SkippedSilent"

\* C2: for an item whose ratio is at least T_skip and below T_filter the
\* normalizations are a plain one followed by an enhanced one (exactly these
\* two once process_one has returned), and a transcription call is made only
\* after the enhanced normalization has succeeded and on the enhanced audio.
C2_FilterTierRenormalizes ==
    \A i \in Items :
        (inp[i].ratio >= VAD_SKIP_THRESHOLD /\ inp[i].ratio < VAD_FILTER_THRESHOLD) =>
            /\ SelectSeq(events[i], IsConversion)
                 \in {<<"convert_plain">>, <<"convert_plain", "convert_enhanced">>}
            /\ Over(i) => SelectSeq(events[i], IsConversion)
                             = <<"convert_plain", "convert_enhanced">>
            /\ ~Has(i, "stt_plain")
            /\ \A k \in 1..Len(events[i]) :
                 events[i][k] = "stt_enhanced" =>
                    /\ inp[i].conv2 = "yes"
                    /\ \E j \in 1..(k - 1) : events[i][j] = "convert_enhanced"
            /\ (Over(i) /\ inp[i].conv2 = "no") =>
                    outcome[i] = "Failed_reconvert" /\ ~Transcribed(i)

\* C2 witness: an item measured at T_skip has been transcribed
C2_Witness ==
    \E i \in Items : inp[i].ratio = VAD_SKIP_THRESHOLD /\ Has(i, "stt_enhanced")

\* C3: an item whose ratio is at least T_filter, whose transcription gave at
\* least one segment and whose three writes succeeded went through exactly
\* one plain normalization, one measurement, one transcription of the plain
\* audio, the JSON write and the two upserts, in this order; it ended Done,
\* its segments are stored and has_record(content_id) is true.
C3_AcceptTierDone ==
    \A i \in Items :
        (/\ inp[i].ratio >= VAD_FILTER_THRESHOLD
         /\ inp[i].emitted >= 1 /\ inp[i].stt_failed = "no"
         /\ inp[i].json = "yes" /\ inp[i].db_rec = "yes"
         /\ inp[i].seg_raise = "no") =>
            /\ outcome[i] = "Done"
            /\ SelectSeq(events[i], IsWork)
                 = <<"convert_plain", "vad", "stt_plain", "save_to_json",
                     "upsert_record", "upsert_segments">>
            /\ has_record(index, ItemCid(i))
            /\ ItemJson(i) \in jsonFiles
            /\ LET res == stt_whisper(SubSeq(EngineStream("plain"), 1,
                                             inp[i].emitted), FALSE)
                   rws == SegmentRows(ItemCid(i), res)
               IN  \A k \in 1..Len(rws) : rws[k] \in segment

\* C3 witness: an item measured at T_filter itself, the lowest ratio of the
\* accept tier, is Done and has its index record from this run
C3_Witness ==
    \E i \in Items :
        /\ inp[i].ratio = VAD_FILTER_THRESHOLD
        /\ outcome[i] = "Done"
        /\ has_record(index, ItemCid(i))
        /\ ~has_record(start0.index, ItemCid(i))

\* C4: when the speech-ratio measurement raises, the item is not Failed: it
\* is classified with ratio 0.0, which is the skip tier, so it ends as
\* SkippedSilent right after the measurement with no transcription and no
\* write.
C4_VadFailureSkips ==
    \A i \in Items :
        inp[i].ratio = VadRaised =>
            /\ outcome[i] = "SkippedSilent"
            /\ events[i][Len(events[i])] = "vad"
            /\ ~Transcribed(i)
            /\ ~Wrote(i)
            /\ StoreUntouched(i)

\* C4 witness: a measurement has raised and the item was skipped as silent
C4_Witness ==
    \E i \in Items : inp[i].ratio = VadRaised /\ outcome[i] = "SkippedSilent"

\* the outcome of process_one for item i by itself: a function of what the
\* environment answered for this item and of the store when the run began
Alone(i) ==
    LET in == inp[i] IN
    IF in.dirs = "no" THEN "Failed_exc"
    ELSE IF args.skip_existing /\ ItemJson(i) \in start0.jsonFiles
         THEN "SkippedExisting"
    ELSE IF args.skip_existing /\ in.has_record = "raise" THEN "Failed_exc"
    ELSE IF args.skip_existing /\ has_record(start0.index, ItemCid(i))
         THEN "SkippedExisting"
    ELSE IF in.src = "no" THEN "MissingSource"
    ELSE IF in.conv1 = "no" THEN "Failed_convert"
    ELSE IF in.ratio = VadRaised \/ in.ratio < VAD_SKIP_THRESHOLD
         THEN "SkippedSilent"
    ELSE IF in.ratio < VAD_FILTER_THRESHOLD /\ in.conv2 = "no"
         THEN "Failed_reconvert"
    ELSE IF in.stt_failed = "yes" \/ in.emitted = 0 THEN "SkippedNoSpeech"
    ELSE IF in.db_rec = "no" THEN "Failed_record"
    ELSE IF in.seg_raise = "yes" THEN "Failed_segments"
    ELSE "Done"

\* C5: whatever happened to the other items of the batch, every item that
\* process_one is done with has the outcome it would have had alone; and a
\* run that entered the loop and was not interrupted ends with exit code 0
\* after every resolved row has been processed.
C5_FailureIsolation ==
    /\ \A i \in Items : Over(i) => outcome[i] = Alone(i)
    /\ (mainPc = "exited" /\ idx >= 1 /\ exitCode # 130) =>
          /\ exitCode = 0
          /\ \A i \in Items : Over(i)

\* C5 witness: the first item failed in the transcoder, the second is Done
\* and the run ended with exit code 0
C5_Witness ==
    /\ mainPc = "exited" /\ exitCode = 0 /\ Len(rows) = 2
    /\ outcome[1] = "Failed_convert"
    /\ outcome[2] = "Done"

\* C6 as stated: in a run with skip-existing enabled an item that has no
\* index record is not skipped, whatever files exist.
C6_NoRecordNotSkipped ==
    \A i \in Items :
        (/\ args.skip_existing
         /\ ~has_record(start0.index, ItemCid(i))
         /\ Over(i)) =>
            outcome[i] # "SkippedExisting"

\* C6 amended: in a run with skip-existing enabled an item that has no index
\* record is skipped exactly when its transcript JSON file exists; when it
\* is skipped for the file it still has no index record afterwards.
C6_NoRecordSkippedIffJson ==
    \A i \in Items :
        (/\ args.skip_existing
         /\ ~has_record(start0.index, ItemCid(i))
         /\ inp[i].dirs = "yes" /\ inp[i].has_record # "raise"
         /\ Over(i)) =>
            /\ (outcome[i] = "SkippedExisting")
                 = (ItemJson(i) \in start0.jsonFiles)
            /\ outcome[i] = "SkippedExisting" => ~has_record(index, ItemCid(i))

\* C6 witness: a transcript file without index record was left by an earlier
\* run, and a skip-existing run has skipped the item
C6_Witness ==
    \E i \in Items :
        /\ args.skip_existing
        /\ ItemJson(i) \in start0.jsonFiles
        /\ ~has_record(start0.index, ItemCid(i))
        /\ outcome[i] = "SkippedExisting"
        /\ ~has_record(index, ItemCid(i))

\* C7: with skip-existing enabled an item whose transcript file exists or
\* whose index record exists is skipped, and nothing but the two checks was
\* done for it; with skip-existing disabled neither check is made, no item
\* is skipped as existing and the item goes on to the source check.
C7_SkipExistingDisjunction ==
    \A i \in Items :
        /\ (/\ args.skip_existing
            /\ inp[i].dirs = "yes" /\ inp[i].has_record # "raise"
            /\ Over(i)
            /\ \/ ItemJson(i) \in start0.jsonFiles
               \/ has_record(start0.index, ItemCid(i))) =>
               /\ outcome[i] = "SkippedExisting"
               /\ \A k \in 1..Len(events[i]) : IsCheck(events[i][k])
               /\ inp[i].src = "-"
               /\ StoreUntouched(i)
        /\ ~args.skip_existing =>
               /\ outcome[i] # "SkippedExisting"
               /\ \A k \in 1..Len(events[i]) : ~IsCheck(events[i][k])
               /\ (Over(i) /\ inp[i].dirs = "yes") => inp[i].src # "-"

\* C7 witness: the index record alone (no transcript file) made a
\* skip-existing run skip the item
C7_Witness ==
    \E i \in Items :
        /\ args.skip_existing
        /\ ItemJson(i) \notin start0.jsonFiles
        /\ has_record(start0.index, ItemCid(i))
        /\ outcome[i] = "SkippedExisting"

(***************************************************************************)
(* Claims about the persistence API (checked under SpecDb).                *)
(***************************************************************************)
\* C8: after any sequence of upsert_record calls the index holds exactly one
\* row for every content_id that was written and no other row; the row's
\* title, sub-programme name, archive id, clip id, broadcast date, proxy
\* path and both paths are those of the latest
\* call for that content_id (the date as YYYYMMDD text and the paths without
\* the NAS prefix, the form upsert_record stores them in); and a call that
\* hits an existing row leaves its updated_at strictly later than before and
\* its created_at as it was, whether or not any field changed.
C8_UpsertRecordLatestWins ==
    /\ \A c \in DOMAIN latest : Cardinality(RowsOf(index, c)) = 1
    /\ \A r \in index :
         /\ r.content_id \in DOMAIN latest
         /\ LET l == latest[r.content_id] IN
            /\ r.title      = l.results.TITLE
            /\ r.subprognm  = l.results.SUBPROGNM
            /\ r.archive_id = l.results.ARCHIVE_ID
            /\ r.sys_clip_id = l.results.SYS_CLIP_ID
            /\ r.proxy_path = l.results.PROXY_PATH
            /\ r.brodymd    = Brodymd(l.results.BRODYMD)
            /\ r.wav_path   = _strip_prefix(l.wav_path)
            /\ r.json_path  = _strip_prefix(l.json_path)
    /\ (api.op = "upsert_record" /\ ~api.raised) =>
         \A old \in RowsOf(api.preIndex, api.content_id) :
            \A new \in RowsOf(index, api.content_id) :
               new.updated_at > old.updated_at /\ new.created_at = old.created_at

\* C8 witness: an upsert_record call has hit an existing row with the very
\* values the row held, and the row's updated_at has moved on
C8_Witness ==
    /\ api.op = "upsert_record" /\ ~api.raised
    /\ \E old \in RowsOf(api.preIndex, api.content_id) :
         \E new \in RowsOf(index, api.content_id) :
            /\ new.title = old.title /\ new.wav_path = old.wav_path
            /\ new.json_path = old.json_path /\ new.brodymd = old.brodymd
            /\ new.updated_at > old.updated_at

\* C9: after upsert_segments(cid, S) with a non-empty S has returned without
\* raising, the segment rows stored for cid are exactly the rows of S,
\* numbered 0..|S|-1, also when more rows had been stored for cid before.
C9_SegmentsReplaced ==
    (api.op = "upsert_segments" /\ api.segs # <<>> /\ ~api.raised) =>
        RowsOf(segment, api.content_id) =
            {SegmentRows(api.content_id, api.segs)[i] : i \in 1..Len(api.segs)}

\* C10: upsert_segments(cid, []) raises nothing, opens no write transaction
\* and leaves every stored segment row and index row as it was.
C10_EmptySegmentsNoOp ==
    (api.op = "upsert_segments" /\ api.segs = <<>>) =>
        /\ ~api.raised
        /\ txCount = api.preTx
        /\ segment = api.preSegment
        /\ index = api.preIndex

\* C10 witness: the empty call came after segments had been stored for cid
C10_Witness ==
    /\ api.op = "upsert_segments" /\ api.segs = <<>>
    /\ Cardinality(RowsOf(segment, api.content_id)) = 2

(***************************************************************************)
(* Claims about interruption (checked under Spec).                         *)
(***************************************************************************)
\* C11: an interrupt is observed only at item boundaries: when the run has
\* ended with exit code 130, every item that had reached the normalization
\* or a later step has run to a terminal outcome.
C11_InterruptAtItemBoundary ==
    (mainPc = "exited" /\ exitCode = 130) =>
        \A i \in Items : inp[i].src = "yes" => Over(i)

\* C12: after an interrupt no later item has been started, every item that
\* ended Done still has its index record and its segments, and no item is
\* left with an index record committed by this run but without the segment
\* write.
C12_InterruptLeavesNoHalfPersisted ==
    (mainPc = "exited" /\ exitCode = 130) =>
        /\ \A i \in Items : i > idx => outcome[i] = "pending" /\ events[i] = <<>>
        /\ \A i \in Items : outcome[i] = "Done" =>
              /\ has_record(index, ItemCid(i))
              /\ LET res == stt_whisper(SubSeq(EngineStream(
                                IF Has(i, "stt_enhanced") THEN "enhanced" ELSE "plain"),
                                1, inp[i].emitted), FALSE)
                     rws == SegmentRows(ItemCid(i), res)
                 IN  \A k \in 1..Len(rws) : rws[k] \in segment
        /\ \A i \in Items :
              ~(inp[i].db_rec = "yes" /\ ~Has(i, "upsert_segments"))

(***************************************************************************)
(* Claims about the recognition result and the two index transactions      *)
(* (checked under Spec).                                                   *)
(***************************************************************************)
\* C13: when the recognition call fails, also after segments were emitted,
\* stt_whisper gives the empty sequence; and an item whose transcription
\* result is empty ends as SkippedNoSpeech right after the transcription
\* call, with no transcript JSON, no index record and no segment rows
\* written.
C13_EmptyResultIsNoSpeech ==
    \A i \in Items :
        (inp[i].stt_failed = "yes" \/ inp[i].emitted = 0) =>
            /\ stt_whisper(SubSeq(EngineStream("plain"), 1, inp[i].emitted),
                           inp[i].stt_failed = "yes") = <<>>
            /\ stt_whisper(SubSeq(EngineStream("enhanced"), 1, inp[i].emitted),
                           inp[i].stt_failed = "yes") = <<>>
            /\ outcome[i] = "SkippedNoSpeech"
            /\ events[i][Len(events[i])] \in {"stt_plain", "stt_enhanced"}
            /\ ~Wrote(i)
            /\ StoreUntouched(i)

\* C13 witness: the recognition call failed after two segments had been
\* emitted, and the item ended as SkippedNoSpeech
C13_Witness ==
    \E i \in Items :
        /\ inp[i].stt_failed = "yes" /\ inp[i].emitted = 2
        /\ outcome[i] = "SkippedNoSpeech"

\* C14: the index record and the segments of an item are written in two
\* transactions: when upsert_record has committed and upsert_segments then
\* raises, or is never called because the run stops in between, the index
\* record stays, has_record is true for the item, and the item's segment
\* rows are what they were when the run began (none for a new item).
C14_RecordWithoutSegments ==
    \A i \in Items :
        (/\ inp[i].db_rec = "yes"
         /\ \/ inp[i].seg_raise = "yes"
            \/ (~Has(i, "upsert_segments") /\ mainPc = "exited")) =>
            /\ has_record(index, ItemCid(i))
            /\ Cardinality(RowsOf(index, ItemCid(i))) = 1
            /\ RowsOf(segment, ItemCid(i)) = RowsOf(start0.segment, ItemCid(i))

\* C14 witness: a new item's segment write failed after its index record
\* was committed: the record is there, with no segment rows
C14_Witness ==
    \E i \in Items :
        /\ outcome[i] = "Failed_segments"
        /\ ~has_record(start0.index, ItemCid(i))
        /\ has_record(index, ItemCid(i))
        /\ RowsOf(segment, ItemCid(i)) = {}

(***************************************************************************)
(* Claims about main: exit codes, order of the items, the model load       *)
(* (checked under Spec).                                                   *)
(***************************************************************************)
\* a step in which the process ends
Exits == mainPc' = "exited" /\ (mainPc # "exited" \/ run' # run)

\* a step in which the current item ends as failed
ItemFails ==
    /\ run' = run /\ rows' = rows /\ idx' = idx /\ idx >= 1
    /\ outcome[idx] = "running"
    /\ outcome'[idx] \in FailedOutcomes

\* C15 as stated: the process ends with a non-zero exit code in three cases
\* only: 2 for year-start > year-end, before anything else is done; 1 for an
\* empty result set, before the model load; 130 for an interrupt; and a
\* failing item leaves the exit code alone.
C15_ThreeNonZeroExits ==
    [][/\ (Exits /\ exitCode' # 0) =>
            \/ exitCode' = 2 /\ run' # run /\ ~args'.range_ok
            \/ exitCode' = 1 /\ mainPc = "fetch" /\ rows' = <<>> /\ loads = 0
            \/ exitCode' = 130 /\ mainPc = "loop"
       /\ ItemFails => UNCHANGED <<exitCode, mainPc>>
      ]_vars

\* C15 amended: the process ends with 2 for year-start > year-end, before
\* anything else is done; with 1 when schema preparation fails, when the
\* catalog gives no rows (empty result, failed query, failed connection) or
\* when the model load fails, in each case before the first item; with 130
\* for an interrupt during the loop; with 0 when the loop has gone through
\* every row; and a failing item leaves the exit code alone.
C15_ExitCodes ==
    [][/\ Exits =>
            \/ /\ exitCode' = 2 /\ run' # run /\ ~args'.range_ok
               /\ rows' = <<>> /\ loads' = 0
            \/ /\ exitCode' = 1 /\ idx = 0
               /\ \/ mainPc = "init_db" /\ rows = <<>> /\ loads = 0
                  \/ mainPc = "fetch" /\ rows' = <<>> /\ loads = 0
                  \/ mainPc = "load" /\ rows # <<>>
            \/ exitCode' = 130 /\ mainPc = "loop"
            \/ /\ exitCode' = 0 /\ mainPc = "loop" /\ pc = "none"
               /\ idx = Len(rows)
       /\ ItemFails => UNCHANGED <<exitCode, mainPc>>
      ]_vars

\* C15 witness: a run has ended with exit code 1 although its result set
\* was not empty (the model load failed); no item was started
C15_Witness ==
    /\ mainPc = "exited" /\ exitCode = 1
    /\ rows # <<>> /\ loads = 1 /\ idx = 0

\* C16: within a run the rows are resolved once and then fixed; items are
\* started in the resolver's order, one position at a time and only when the
\* item before has reached a terminal outcome; an item behind the loop's
\* position has not been started; and once an item has a terminal outcome,
\* Failed included, it keeps it for the rest of the run: no row is started
\* twice; a run that ends with exit code 0 has gone through every row.
C16_InOrderExactlyOnce ==
    /\ [](/\ idx <= Len(rows)
          /\ \A i \in Items :
               /\ i < idx => Over(i)
               /\ i > idx => outcome[i] = "pending" /\ events[i] = <<>>
               /\ (i = idx) => outcome[i] # "pending"
          /\ (mainPc = "exited" /\ exitCode = 0) =>
               idx = Len(rows) /\ \A i \in Items : Over(i))
    /\ [][run' = run =>
            /\ rows' # rows => mainPc = "fetch" /\ rows = <<>> /\ idx = 0
            /\ idx' # idx =>
                 /\ idx' = idx + 1 /\ pc = "none"
                 /\ outcome[idx'] = "pending" /\ outcome'[idx'] = "running"
                 /\ idx >= 1 => Over(idx)
            /\ rows' = rows =>
                 \A i \in Items :
                    outcome[i] \notin {"pending", "running"} =>
                        outcome'[i] = outcome[i] /\ events'[i] = events[i]
      ]_vars

\* C16 witness: the first of two rows ended as failed, the loop has moved on
\* and the second row is Done
C16_Witness ==
    /\ Len(rows) = 2 /\ idx = 2
    /\ outcome[1] \in FailedOutcomes
    /\ outcome[2] = "Done"

\* C18: in a run the recognition model is loaded at most once, and it has
\* been loaded (once) whenever an item has been started; the loop never
\* loads it; a run that stopped on an invalid year range or on an empty
\* result set has not loaded it.
C18_ModelLoadedOnce ==
    /\ [](/\ loads <= 1
          /\ (idx >= 1 \/ mainPc = "loop") => loads = 1
          /\ (mainPc = "exited" /\ exitCode = 2) => loads = 0
          /\ (mainPc = "exited" /\ rows = <<>>) => loads = 0)
    /\ [][(run' = run /\ loads' # loads) =>
             mainPc = "load" /\ loads = 0 /\ idx = 0 /\ rows # <<>>]_vars

\* C18 witness: a run over two rows has finished both with one load
C18_Witness ==
    /\ mainPc = "exited" /\ exitCode = 0
    /\ Len(rows) = 2 /\ idx = 2 /\ loads = 1

(***************************************************************************)
(* Two batch processes that work on the same catalog row at the same time, *)
(* against one store and one disk.  Each database transaction is one step  *)
(* (PostgreSQL runs each of them atomically; two upserts of one key queue  *)
(* on the row lock); the steps of the two processes interleave freely.     *)
(* The steps are those of process_one from the skip check on, for an item  *)
(* whose normalization and measurement succeed.                            *)
(***************************************************************************)
ConcId == 1

ConcCid == Str(ConcId)

ConcWav == shard_filepath(BASE_STT_WAV, ConcCid, EXT_WAV)

ConcJson == shard_filepath(BASE_STT_JSON, ConcCid, EXT_JSON)

WGoto(w, p) == writers' = [writers EXCEPT ![w].pc = p]

\* main.py:54-57, with the run's --skip-existing option
W_Check(w) ==
    /\ writers[w].pc = "check"
    /\ \E skip \in BOOLEAN :
         writers' = [writers EXCEPT
            ![w].skip_existing = skip,
            ![w].pc = IF skip /\ AlreadyProcessed(ConcJson \in jsonFiles,
                                                  has_record(index, ConcCid))
                      THEN "skipped" ELSE "stt"]
    /\ UNCHANGED <<storeVars, jsonFiles, mainVars, itemVars, obsVars, apiVars, fn, histVars>>

\* main.py:63-110: each process transcribes its own normalization
W_Stt(w) ==
    /\ writers[w].pc = "stt"
    /\ \E n \in 1..MaxSegs, wav \in {"plain", "enhanced"} :
         writers' = [writers EXCEPT
            ![w].stt_results = stt_whisper(SubSeq(EngineStream(wav), 1, n), FALSE),
            ![w].pc = "json"]
    /\ UNCHANGED <<storeVars, jsonFiles, mainVars, itemVars, obsVars, apiVars, fn, histVars>>

\* main.py:112-117
W_Json(w) ==
    /\ writers[w].pc = "json"
    /\ \E writeOk \in BOOLEAN :
         jsonFiles' = save_to_json(jsonFiles, ConcJson, writeOk)
    /\ WGoto(w, "rec")
    /\ UNCHANGED <<storeVars, mainVars, itemVars, obsVars, apiVars, fn, histVars>>

\* main.py:119-120
W_Rec(w) ==
    /\ writers[w].pc = "rec"
    /\ \E dbOk \in BOOLEAN, tick \in Ticks :
         /\ UpsertRecordTx(CatalogRow(ConcId), ConcWav, ConcJson, dbOk, tick)
         /\ WGoto(w, IF dbOk THEN "segs" ELSE "failed")
    /\ UNCHANGED <<jsonFiles, mainVars, itemVars, obsVars, apiVars, fn, histVars>>

\* main.py:121-123
W_Segs(w) ==
    /\ writers[w].pc = "segs"
    /\ \E dbOk \in BOOLEAN :
         /\ UpsertSegmentsTx(ConcCid, writers[w].stt_results, dbOk)
         /\ WGoto(w, IF UpsertSegmentsRaises(ConcCid, writers[w].stt_results, dbOk)
                     THEN "failed" ELSE "done")
    /\ UNCHANGED <<jsonFiles, mainVars, itemVars, obsVars, apiVars, fn, histVars>>

NextConc == \E w \in Writers :
                W_Check(w) \/ W_Stt(w) \/ W_Json(w) \/ W_Rec(w) \/ W_Segs(w)

SpecConc == Init /\ [][NextConc]_vars

\* C17: under every interleaving of two processes working on the same item,
\* the index holds at most one row for the content_id (exactly one as soon
\* as a process has committed its record) and the segment table at most one
\* row per (content_id, seg_no).
C17_ConcurrentRunsRowSafe ==
    /\ Cardinality(RowsOf(index, ConcCid)) <= 1
    /\ (\E w \in Writers : writers[w].pc \in {"segs", "done"}) =>
           Cardinality(RowsOf(index, ConcCid)) = 1
    /\ \A r1, r2 \in segment :
           (r1.content_id = r2.content_id /\ r1.seg_no = r2.seg_no) => r1 = r2

\* C17 witness: both processes ran with skip-existing, neither was stopped
\* by the check, and both have written their (different) segments for the
\* same item
C17_Witness ==
    /\ \A w \in Writers : writers[w].skip_existing /\ writers[w].pc = "done"
    /\ writers[1].stt_results # writers[2].stt_results
    /\ Cardinality(RowsOf(index, ConcCid)) = 1

(***************************************************************************)
(* The pure helpers applied to arguments of small sets: the specification  *)
(* the claims about shard_filepath and _hhmmss_to_ms are checked under.    *)
(***************************************************************************)
\* content ids as text, of one to eight digits, some with leading zeros
ShardIds ==
    {Str(7), <<"0","7">>, ZFill(Str(7), ZFILL_WIDTH), Str(12), Str(1234),
     Str(123456), Str(5051248), Str(25051248), Str(25051249), Str(99999999)}

ShardBases == {<<"/","x">>, BASE_STT_WAV}

ShardExts == {EXT_WAV, EXT_JSON}

\* shard_filepath applied, once, to two ids under one base and extension
FnShard ==
    /\ fn.op = "none"
    /\ \E base \in ShardBases, ext \in ShardExts, a \in ShardIds, b \in ShardIds :
         fn' = [op |-> "shard", base |-> base, ext |-> ext, a |-> a, b |-> b,
                ra |-> shard_filepath(base, a, ext),
                rb |-> shard_filepath(base, b, ext)]
    /\ UNCHANGED <<storeVars, jsonFiles, mainVars, itemVars, obsVars, apiVars,
                   writers, histVars>>

\* a timecode: hours, minutes, seconds and a fraction in milliseconds
\* (NoFraction for the form without fraction)
NoFraction == -1

TcHours == {0, 1, 23, 99}

TcMinutes == {0, 5, 59}

TcSeconds == {0, 1, 59}

TcFractions == {NoFraction, 0, 500, 999}

Timecodes ==
    [h : TcHours, m : TcMinutes, s : TcSeconds, f : TcFractions]

\* the text HH:MM:SS or HH:MM:SS.fff of a timecode
TimecodeText(t) ==
    ZFill(Str(t.h), 2) \o <<":">> \o ZFill(Str(t.m), 2) \o <<":">>
    \o ZFill(Str(t.s), 2)
    \o (IF t.f = NoFraction THEN <<>> ELSE <<".">> \o ZFill(Str(t.f), 3))

\* upsert_segments building the row of one segment (pg_db.py:201-206)
FnSegmentRow ==
    /\ fn.op = "none"
    /\ \E start \in Timecodes, end \in Timecodes :
         fn' = [op |-> "segment_row", start |-> start, end |-> end,
                row |-> SegmentRows(<<"7">>,
                            <<[start |-> TimecodeText(start),
                               end   |-> TimecodeText(end),
                               text  |-> <<"a">>]>>)[1]]
    /\ UNCHANGED <<storeVars, jsonFiles, mainVars, itemVars, obsVars, apiVars,
                   writers, histVars>>

\* times, in milliseconds, at which the recognition engine places a segment
\* boundary: up to and beyond 24 hours
EngineTimes == {0, 1500, 3599999, 86399999, 86400000, 90061000, 172800000}

\* stt_whisper turning one emitted segment into its timecode texts
\* (stt_engine.py:36-45) and upsert_segments building its row
\* (pg_db.py:201-206), where a timecode that does not parse raises
FnEngineSegment ==
    /\ fn.op = "none"
    /\ \E t0 \in EngineTimes, t1 \in EngineTimes :
         LET res == stt_whisper(<<[start |-> t0, end |-> t1, text |-> <<"a">>]>>,
                                FALSE)
         IN  fn' = [op |-> "engine_segment", t0 |-> t0, t1 |-> t1,
                    seg |-> res[1],
                    raised |-> RowsRaise(<<"7">>, res),
                    row |-> SegmentRows(<<"7">>, res)[1]]
    /\ UNCHANGED <<storeVars, jsonFiles, mainVars, itemVars, obsVars, apiVars,
                   writers, histVars>>

NextFn == FnShard \/ FnSegmentRow \/ FnEngineSegment

SpecFn == Init /\ [][NextFn]_vars

\* the id filled with zeros on the left to eight digits, digit by digit
Pad8(id) ==
    [i \in 1..8 |-> IF i <= 8 - Len(id) THEN "0" ELSE id[i - (8 - Len(id))]]

\* base/<digits 1-2>/<digits 3-4>/<padded id><ext>
ShardedForm(base, id, ext) ==
    LET p == Pad8(id) IN
    base \o <<"/", p[1], p[2], "/", p[3], p[4], "/">> \o p \o ext

\* C19: shard_filepath(base, id, ext) is
\* base/<digits 1-2>/<digits 3-4>/<id zero-padded to 8 digits><ext>, as in
\* the two examples /x/25/05/25051248.wav and /x/00/00/00000007.json, and
\* two ids of at most 8 digits get the same path exactly when their 8-digit
\* paddings are equal.
C19_ShardFormatInjective ==
    fn.op = "shard" =>
        /\ fn.ra = ShardedForm(fn.base, fn.a, fn.ext)
        /\ fn.rb = ShardedForm(fn.base, fn.b, fn.ext)
        /\ (fn.ra = fn.rb) = (Pad8(fn.a) = Pad8(fn.b))
        /\ (fn.base = <<"/","x">> /\ fn.a = Str(25051248) /\ fn.ext = EXT_WAV) =>
              fn.ra = <<"/","x","/","2","5","/","0","5","/",
                        "2","5","0","5","1","2","4","8",".","w","a","v">>
        /\ (fn.base = <<"/","x">> /\ fn.b = Str(7) /\ fn.ext = EXT_JSON) =>
              fn.rb = <<"/","x","/","0","0","/","0","0","/",
                        "0","0","0","0","0","0","0","7",".","j","s","o","n">>

\* C19 witness: the ids 25051248 and 7 under /x, with different paths
C19_Witness ==
    /\ fn.op = "shard" /\ fn.base = <<"/","x">>
    /\ fn.a = Str(25051248) /\ fn.b = Str(7)
    /\ fn.ra # fn.rb

\* the time of a timecode in milliseconds, fraction included
TrueMs(t) ==
    (t.h * 3600 + t.m * 60 + t.s) * 1000 + (IF t.f = NoFraction THEN 0 ELSE t.f)

\* C20: for a timecode text HH:MM:SS or HH:MM:SS.fraction the stored value
\* is (HH*3600 + MM*60 + SS)*1000, the fraction cut off; and a segment whose
\* start is not after its end is stored with start_ms <= end_ms.
C20_TimecodeToMs ==
    fn.op = "segment_row" =>
        /\ fn.row.start_ms = (fn.start.h * 3600 + fn.start.m * 60 + fn.start.s) * 1000
        /\ fn.row.end_ms = (fn.end.h * 3600 + fn.end.m * 60 + fn.end.s) * 1000
        /\ TrueMs(fn.start) <= TrueMs(fn.end) => fn.row.start_ms <= fn.row.end_ms

\* C20 witness: a segment from 01:05:59.999 to 23:00:00 is stored as
\* 3959000 .. 82800000
C20_Witness ==
    /\ fn.op = "segment_row"
    /\ fn.start = [h |-> 1, m |-> 5, s |-> 59, f |-> 999]
    /\ fn.end = [h |-> 23, m |-> 0, s |-> 0, f |-> NoFraction]
    /\ fn.row.start_ms = 3959000 /\ fn.row.end_ms = 82800000

\* C21: an item whose transcript JSON write failed has no upsert_record and
\* no upsert_segments call, and no index record carries the path of a
\* transcript file that is not there.
C21_JsonFailureStopsItem ==
    \A i \in Items :
        inp[i].json = "no" =>
            /\ ~Has(i, "upsert_record")
            /\ ~Has(i, "upsert_segments")
            /\ (ItemJson(i) \notin jsonFiles =>
                    \A r \in RowsOf(index, ItemCid(i)) :
                        r.json_path # _strip_prefix(ItemJson(i)))

\* C22: an item whose source file is missing, or whose first normalization
\* failed, has no speech-ratio measurement, no transcription and no write,
\* and the store holds for it what it held when the run began; an item whose
\* enhanced re-normalization failed has no transcription and no write; and
\* the failed normalization was attempted once: a missing source has no
\* normalization call at all, a failed first one is the only call, a failed
\* enhanced one is the second and last call.
C22_FailedNormalizationStopsItem ==
    \A i \in Items :
        /\ (inp[i].src = "no" \/ inp[i].conv1 = "no") =>
              /\ ~Has(i, "vad")
              /\ ~Transcribed(i)
              /\ ~Wrote(i)
              /\ StoreUntouched(i)
        /\ inp[i].src = "no" =>
              /\ outcome[i] = "MissingSource"
              /\ SelectSeq(events[i], IsConversion) = <<>>
        /\ inp[i].conv1 = "no" =>
              /\ outcome[i] = "Failed_convert"
              /\ SelectSeq(events[i], IsConversion) = <<"convert_plain">>
        /\ inp[i].conv2 = "no" =>
              /\ outcome[i] = "Failed_reconvert"
              /\ ~Transcribed(i)
              /\ ~Wrote(i)
              /\ StoreUntouched(i)
              /\ SelectSeq(events[i], IsConversion)
                   = <<"convert_plain", "convert_enhanced">>

\* C22 witness: a run is over in which one item failed its first
\* normalization and another failed its enhanced re-normalization, and the
\* loop went past both
C22_Witness ==
    /\ mainPc = "exited"
    /\ \E i, j \in Items :
         /\ outcome[i] = "Failed_convert" /\ inp[i].conv1 = "no"
         /\ outcome[j] = "Failed_reconvert" /\ inp[j].conv2 = "no"

\* C23: in every state every stored segment row has a content_id that has
\* an index record; an item's upsert_segments call comes after its
\* upsert_record call has committed, and an item whose upsert_record failed
\* has no upsert_segments call.
C23_SegmentsHaveIndexRecord ==
    /\ \A r \in segment : has_record(index, r.content_id)
    /\ \A i \in Items :
         /\ \A k \in 1..Len(events[i]) :
              events[i][k] = "upsert_segments" =>
                 /\ inp[i].db_rec = "yes"
                 /\ \E j \in 1..(k - 1) : events[i][j] = "upsert_record"
                 /\ has_record(index, ItemCid(i))
         /\ inp[i].db_rec = "no" =>
              /\ ~Has(i, "upsert_segments")
              /\ outcome[i] = "Failed_record"
              /\ RowsOf(segment, ItemCid(i)) = RowsOf(start0.segment, ItemCid(i))

\* C23 witness: in a second run an item's index-record write has failed
\* while another item of the run has stored segment rows that the run began
\* without
C23_Witness ==
    /\ run = 2
    /\ \E i, j \in Items :
         /\ inp[i].db_rec = "no" /\ outcome[i] = "Failed_record"
         /\ Has(j, "upsert_segments")
         /\ RowsOf(segment, ItemCid(j)) # {}
         /\ RowsOf(start0.segment, ItemCid(j)) = {}

\* C24: in a run with skip-existing enabled, an item that ended Done in an
\* earlier run has no normalization, no speech-ratio measurement, no
\* transcription, no JSON write and no index or segment write (only the two
\* existence checks are made for it), its index record, segment rows and
\* transcript file are as the earlier run left them, and once process_one
\* has returned it is SkippedExisting, or Failed when a check itself raised.
C24_SecondRunSkipsDone ==
    \A i \in Items :
        (args.skip_existing /\ ItemCid(i) \in doneBefore) =>
            /\ SelectSeq(events[i], IsWork) = <<>>
            /\ ~Transcribed(i)
            /\ ~Wrote(i)
            /\ StoreUntouched(i)
            /\ has_record(index, ItemCid(i))
            /\ Over(i) => outcome[i] \in {"SkippedExisting", "Failed_exc"}

\* C24 witness: the second run, with skip-existing, has gone past an item
\* that the first run left Done with its segment rows, and skipped it
C24_Witness ==
    /\ run = 2 /\ args.skip_existing
    /\ \E i \in Items :
         /\ ItemCid(i) \in doneBefore
         /\ outcome[i] = "SkippedExisting"
         /\ RowsOf(segment, ItemCid(i)) # {}
         /\ ItemJson(i) \in jsonFiles

\* C25: for a segment the engine emits from t0 to t1 milliseconds, the
\* timecode texts of stt_whisper are accepted by _hhmmss_to_ms and the row
\* stores the whole seconds of t0 and t1 in milliseconds, for every time,
\* those of 24 hours and more included.
C25_EngineTimecodeAccepted ==
    fn.op = "engine_segment" =>
        /\ ~fn.raised
        /\ fn.row.start_ms = (fn.t0 \div 1000) * 1000
        /\ fn.row.end_ms = (fn.t1 \div 1000) * 1000

\* the seg_no values stored for a content_id
SegNos(content_id) == {r.seg_no : r \in RowsOf(segment, content_id)}

\* C26: after any sequence of upsert_segments calls, the seg_no values
\* stored for a content_id are pairwise distinct and are exactly 0..k-1,
\* where k is the largest segment count a call has stored for it (0 when no
\* call has stored any).
C26_SegNosContiguous ==
    \A c \in {r.content_id : r \in segment} \cup DOMAIN written :
        /\ Cardinality(RowsOf(segment, c)) = Cardinality(SegNos(c))
        /\ c \in DOMAIN written
        /\ SegNos(c) = 0..(written[c] - 1)

\* C26 witness: a call has just stored one segment for a content_id for
\* which an earlier call had stored two, and seg_no 0 and 1 are both there
C26_Witness ==
    /\ api.op = "upsert_segments" /\ ~api.raised /\ Len(api.segs) = 1
    /\ api.content_id \in DOMAIN written
    /\ written[api.content_id] = 2
    /\ SegNos(api.content_id) = {0, 1}

=============================================================================
